---- MODULE Spec2Model ----
(***************************************************************************)
(* Model of the development server of umalator-global/build.mjs            *)
(* (runServer): the request router, the rebuild-on-request coordinator     *)
(* and the static passthrough.                                             *)
(*                                                                         *)
(* Representation of strings.  A request path is the sequence of its       *)
(* segments: the path "/s1/s2/.../sn" is <<s1, ..., sn>>, so "/" is <<"">>  *)
(* and a trailing slash is a final empty segment.  A filesystem path below *)
(* `root` is the sequence of its non-empty segments.                       *)
(***************************************************************************)
EXTENDS Integers, Sequences, FiniteSets, TLC

\* ------------------------------------------------------------------ bounds
\* number of HTTP requests the server receives in one behaviour
MaxReq == 4

\* number of HTTP requests in one behaviour of the router specification
MaxRouterReq == 2

\* requests the server receives while every rebuild succeeds
MaxSuccessReq == 3

\* requests the server receives from page loads
MaxPageReq == 7

\* requests of page loads the server has not answered yet
MaxInFlight == 2

\* number of segments of an import specifier
MaxSpecLen == 4

\* ------------------------------------------------------- program constants
THIS_PACKAGE == "umalator-global"

ARTIFACTS == <<"bundle.js", "bundle.css", "simulator.worker.js">>

SOURCEMAP_ARTIFACTS == <<"bundle.js.map", "bundle.css.map", "simulator.worker.js.map">>

\* subpackage_of when no prefix is configured (undefined and "" are both falsy)
NoPrefix == ""

Range(s) == {s[i] : i \in DOMAIN s}

\* the keys of requestCount: [...ARTIFACTS, ...SOURCEMAP_ARTIFACTS]
ArtifactNames == Range(ARTIFACTS) \cup Range(SOURCEMAP_ARTIFACTS)

\* path.extname on the file names that occur in the model
ExtName(name) ==
    CASE name \in {"bundle.js", "simulator.worker.js"} -> ".js"
      [] name = "bundle.css" -> ".css"
      [] name \in Range(SOURCEMAP_ARTIFACTS) -> ".map"
      [] name = "index.html" -> ".html"
      [] name = "icon.png" -> ".png"
      [] OTHER -> ""

\* MIME_TYPES[ext], undefined for an extension that is not in the table
MIME_TYPES(ext) ==
    CASE ext = ".html" -> "text/html; charset=UTF-8"
      [] ext = ".css" -> "text/css"
      [] ext = ".js" -> "text/javascript"
      [] ext = ".map" -> "application/json"
      [] ext = ".png" -> "image/png"
      [] OTHER -> "undefined"

\* ------------------------------------------------------------ environment
\* The files below `root` (the directory holding .git): what fs.promises.stat
\* and fs.promises.access see.  "absent" | "file" | "dir".
FsKind(fp) ==
    CASE fp = <<>> -> "dir"
      [] fp = <<"umalator-global">> -> "dir"
      [] fp = <<"umalator-global", "index.html">> -> "file"
      [] fp = <<"umalator-global", "icon.png">> -> "file"
      [] fp = <<"umalator-global", "LICENSE">> -> "file"
      [] fp = <<"vendor">> -> "dir"
      [] fp = <<"docs">> -> "dir"
      [] fp = <<"docs", "index.html">> -> "dir"
      [] OTHER -> "absent"

\* the values of --subpackage_of the server is started with: none, or the
\* option's default
Prefixes == {NoPrefix, "uma-tools"}

\* the request paths (req.url) the coordinator is exercised with: an artifact
\* counted by increment, the worker script counted by toggle, the page itself
\* and a path outside the prefix
Urls ==
    { <<"uma-tools", "umalator-global", f>> :
        f \in {"bundle.js", "simulator.worker.js"} }
    \cup
    { <<"uma-tools", "umalator-global", "">>,
      <<"other", "index.html">> }

\* the request paths the router is exercised with: artifacts and a source
\* map, files, directories with and without an index, missing files, paths
\* outside the prefix and a path shorter than the prefix
RouterUrls ==
    { <<"uma-tools", "umalator-global", "bundle.js">>,
      <<"uma-tools", "umalator-global", "bundle.css.map">>,
      <<"uma-tools", "umalator-global", "">>,
      <<"uma-tools", "umalator-global">>,
      <<"uma-tools", "umalator-global", "icon.png">>,
      <<"uma-tools", "umalator-global", "LICENSE">>,
      <<"uma-tools", "umalator-global", "missing.png">>,
      <<"uma-tools", "vendor">>,
      <<"uma-tools", "docs", "">>,
      <<"uma-tools", "">>,
      <<"uma-tools">>,
      <<"">>,
      <<"other", "index.html">>,
      <<"umalator-global", "simulator.worker.js">>,
      <<"umalator-global", "">> }

\* ------------------------------------------------------------------ state
VARIABLES
    subpackage_of,  \* the configured path prefix, fixed at start
    requestCount,   \* Map: artifact name -> counter
    buildCount,     \* number
    output,         \* null (0) or the promise of the latest triggered rebuild
    workerState,    \* 0 | 1
    promises,       \* the promises created by triggers, by identity 1, 2, ...
    alive,          \* the node process is running
    reqs,           \* the requests received so far, in arrival order
    specifier,      \* the import specifier (args.path) the Builder asks about
    resolved        \* what the plugin's onResolve callbacks answered

vars == <<subpackage_of, requestCount, buildCount, output, workerState, promises, alive, reqs,
          specifier, resolved>>

\* the state of the redirectData plugin's one resolution
plugin == <<specifier, resolved>>

coordinator == <<requestCount, buildCount, output, workerState, promises>>

Null == 0

\* ------------------------------------------------------- string functions
\* variant: url.startsWith(`/${p}`), without the closing slash
MutStartsWithNoSlash(url, p) == Len(url) >= 1 /\ url[1] = p

\* url.startsWith(`/${p}/`)
StartsWithPrefix(url, p) == Len(url) >= 2 /\ url[1] = p

\* the guard of the redirect branch: subpackage_of && !url.startsWith(...)
PrefixMismatch(url, p) == p # NoPrefix /\ ~StartsWithPrefix(url, p)

\* url.slice(subpackage_of ? subpackage_of.length + 1 : 0), for a url that
\* passed the prefix check: "/p/rest" becomes "/rest"
Slice(url, p) == IF p # NoPrefix THEN Tail(url) ELSE url

\* the Location header `/${subpackage_of}/${THIS_PACKAGE}/`
RedirectLocation(p) == <<p, THIS_PACKAGE, "">>

NonEmpty(url) == SelectSeq(url, LAMBDA s : s # "")

\* path.basename(url): the last non-empty segment, "" when there is none
Basename(url) ==
    LET segs == NonEmpty(url)
    IN  IF segs = <<>> THEN "" ELSE segs[Len(segs)]

\* path.join(root, url), relative to root: empty segments are normalised away
Join(url) == NonEmpty(url)

IsArtifact(filename) ==
    filename \in Range(ARTIFACTS) \/ filename \in Range(SOURCEMAP_ARTIFACTS)

\* ------------------------------------------------------------ coordinator
\* variant: the worker script counted like any other artifact
MutWorkerToggleStuck(ws) == 1

\* variant: workerState = +workerState, the toggle never leaves 0
MutWorkerToggleIdentity(ws) == ws

\* +!workerState
WorkerToggle(ws) == IF ws = 0 THEN 1 ELSE 0

\* variant: every request counts 1, the worker script's too
MutIncrementAlwaysOne(filename, ws) == 1

\* filename == 'simulator.worker.js' ? (workerState = +!workerState) : 1
Increment(filename, ws) ==
    IF filename = "simulator.worker.js" THEN WorkerToggle(ws) ELSE 1

\* variant: requestN > buildCount
MutNeedsRebuildGreater(requestN, bc) == requestN > bc

\* variant: requestN < buildCount
MutNeedsRebuildBelow(requestN, bc) == requestN < bc

\* variant: every artifact request rebuilds
MutNeedsRebuildAlways(requestN, bc) == TRUE

\* requestN != buildCount
NeedsRebuild(requestN, bc) == requestN # bc

\* variant: buildCount += 2
MutNextBuildCountTwice(bc) == bc + 2

\* buildCount += 1
NextBuildCount(bc) == bc + 1

\* variant: every name of the map holds the buffer of bundle.js
MutOutputFilesOneBuffer(gen) == [f \in ArtifactNames |-> [gen |-> gen, name |-> "bundle.js"]]

\* new Map(result.outputFiles.map(o => [path.basename(o.path), o.contents])):
\* the buffers of the rebuild of generation gen, keyed by file name
OutputFiles(gen) == [f \in ArtifactNames |-> [gen |-> gen, name |-> f]]

NoBuffer == [gen |-> 0, name |-> ""]

\* a request before the handler has filled anything in
BlankRequest(url) ==
    [url |-> url, kind |-> "", pc |-> "done", filename |-> "", requestN |-> 0,
     triggered |-> FALSE, handle |-> Null, gen |-> 0, early |-> FALSE,
     fp |-> <<>>, target |-> <<>>, status |-> 0, ctype |-> "",
     body |-> NoBuffer, location |-> <<>>]

\* no rebuild has completed or failed yet
NoBuildFinished == \A p \in DOMAIN promises : promises[p].build = "running"

\* lines 126-130: the state runServer starts with
Start ==
    /\ requestCount = [f \in ArtifactNames |-> 0]
    /\ buildCount = 0
    /\ output = Null
    /\ workerState = 0
    /\ promises = <<>>
    /\ alive = TRUE
    /\ reqs = <<>>

\* no import is being resolved
NoImport == specifier = <<>> /\ resolved = [rule |-> "idle", path |-> <<>>]

\* line 20: the server runs with the default prefix
Init == subpackage_of = "uma-tools" /\ Start /\ NoImport

\* the server runs with or without a configured prefix
RouterInit == subpackage_of \in Prefixes /\ Start /\ NoImport

\* lines 134-139: the prefix does not match, answer 302 and return
Redirect(url) ==
    /\ alive
    /\ PrefixMismatch(url, subpackage_of)
    /\ reqs' = Append(reqs, [BlankRequest(url) EXCEPT
                  !.kind = "redirect", !.status = 302,
                  !.location = RedirectLocation(subpackage_of)])
    /\ UNCHANGED <<plugin, subpackage_of, coordinator, alive>>

\* lines 140-158: an artifact request, up to the evaluation of `await output`
ArtifactRequest(url) ==
    /\ alive
    /\ ~PrefixMismatch(url, subpackage_of)
    /\ LET filename == Basename(Slice(url, subpackage_of))
           inc == Increment(filename, workerState)
           requestN == requestCount[filename] + inc
           rebuild == NeedsRebuild(requestN, buildCount)
           newCount == IF rebuild THEN NextBuildCount(buildCount) ELSE buildCount
           newPromises == IF rebuild
                          THEN Append(promises, [gen |-> newCount, build |-> "running"])
                          ELSE promises
           newOutput == IF rebuild THEN Len(newPromises) ELSE output
       IN  /\ IsArtifact(filename)
           /\ workerState' = IF filename = "simulator.worker.js" THEN inc ELSE workerState
           /\ requestCount' = [requestCount EXCEPT ![filename] = requestN]
           /\ buildCount' = newCount
           /\ promises' = newPromises
           /\ output' = newOutput
           /\ reqs' = Append(reqs, [BlankRequest(url) EXCEPT
                         !.kind = "artifact", !.pc = "await", !.filename = filename,
                         !.requestN = requestN, !.triggered = rebuild,
                         !.handle = newOutput, !.gen = newCount,
                         !.early = NoBuildFinished])
    /\ UNCHANGED <<plugin, subpackage_of, alive>>

\* lines 153-154: ctx.rebuild() fulfils and the executor resolves the promise
RebuildResolve(p) ==
    /\ alive
    /\ p \in DOMAIN promises
    /\ promises[p].build = "running"
    /\ promises' = [promises EXCEPT ![p].build = "done"]
    /\ UNCHANGED <<plugin, subpackage_of, requestCount, buildCount, output, workerState, alive, reqs>>

\* line 153: ctx.rebuild() rejects; the async executor throws before resolve()
\* and the Promise constructor is given no reject, so the promise stays pending.
\* The executor's own rejection is handled by nobody: depending on the node
\* version and --unhandled-rejections it is a warning or it ends the process.
RebuildReject(p) ==
    /\ alive
    /\ p \in DOMAIN promises
    /\ promises[p].build = "running"
    /\ promises' = [promises EXCEPT ![p].build = "rejected"]
    /\ alive' \in BOOLEAN
    /\ UNCHANGED <<plugin, subpackage_of, requestCount, buildCount, output, workerState, reqs>>

\* variant: `output` read again after the suspension
MutAwaitedPromiseLatest(r) == output

\* the promise request r is suspended on: `await output` read `output` once,
\* before suspending
AwaitedPromise(r) == reqs[r].handle

\* lines 158-162: the awaited promise is resolved, look the artifact up and
\* answer 200 (awaiting null would throw on .get)
ServeArtifact(r) ==
    /\ alive
    /\ r \in DOMAIN reqs
    /\ reqs[r].pc = "await"
    /\ LET h == AwaitedPromise(r)
       IN  IF h = Null
           THEN reqs' = [reqs EXCEPT ![r].pc = "threw"]
           ELSE /\ promises[h].build = "done"
                /\ reqs' = [reqs EXCEPT
                       ![r].pc = "done", ![r].status = 200,
                       ![r].ctype = MIME_TYPES(ExtName(reqs[r].filename)),
                       ![r].body = OutputFiles(promises[h].gen)[reqs[r].filename]]
    /\ UNCHANGED <<plugin, subpackage_of, coordinator, alive>>

\* variant: the static branch counts as a build
MutStaticRequestBuilds(url) ==
    /\ alive
    /\ ~PrefixMismatch(url, subpackage_of)
    /\ LET sliced == Slice(url, subpackage_of)
       IN  /\ ~IsArtifact(Basename(sliced))
           /\ reqs' = Append(reqs, [BlankRequest(url) EXCEPT
                         !.kind = "static", !.pc = "stat", !.fp = Join(sliced)])
    /\ buildCount' = buildCount + 1
    /\ UNCHANGED <<plugin, subpackage_of, requestCount, output, workerState, promises, alive>>

\* lines 163-166: a static passthrough, up to the await of fs.promises.stat
StaticRequest(url) ==
    /\ alive
    /\ ~PrefixMismatch(url, subpackage_of)
    /\ LET sliced == Slice(url, subpackage_of)
       IN  /\ ~IsArtifact(Basename(sliced))
           /\ reqs' = Append(reqs, [BlankRequest(url) EXCEPT
                         !.kind = "static", !.pc = "stat", !.fp = Join(sliced)])
    /\ UNCHANGED <<plugin, subpackage_of, coordinator, alive>>

\* variant: no index.html for a directory
MutStatTargetNoIndex(fp) == fp

\* lines 166-171: stat settles; a directory yields its index.html, a file or a
\* failed stat (null || fp) yields fp itself
StatTarget(fp) == IF FsKind(fp) = "dir" THEN Append(fp, "index.html") ELSE fp

StatDone(r) ==
    /\ alive
    /\ r \in DOMAIN reqs
    /\ reqs[r].pc = "stat"
    /\ reqs' = [reqs EXCEPT ![r].pc = "access", ![r].target = StatTarget(reqs[r].fp)]
    /\ UNCHANGED <<plugin, subpackage_of, coordinator, alive>>

\* fs.promises.access(p).then(() => true, () => false)
Accessible(p) == FsKind(p) # "absent"

\* MIME_TYPES[path.extname(fpOrIndexHtml)] || 'application/octet-stream'
StaticContentType(target) ==
    LET t == MIME_TYPES(ExtName(Basename(target)))
    IN  IF t = "undefined" THEN "application/octet-stream" ELSE t

\* lines 172-187: access settles; the 200 head and the stream, or 404 (a later
\* error of the read stream is not part of the response head)
AccessDone(r) ==
    /\ alive
    /\ r \in DOMAIN reqs
    /\ reqs[r].pc = "access"
    /\ reqs' = [reqs EXCEPT
           ![r].pc = "done",
           ![r].status = IF Accessible(reqs[r].target) THEN 200 ELSE 404,
           ![r].ctype = IF Accessible(reqs[r].target)
                        THEN StaticContentType(reqs[r].target) ELSE ""]
    /\ UNCHANGED <<plugin, subpackage_of, coordinator, alive>>

Next ==
    \/ \E url \in Urls : Len(reqs) < MaxReq /\ Redirect(url)
    \/ \E url \in Urls : Len(reqs) < MaxReq /\ ArtifactRequest(url)
    \/ \E url \in Urls : Len(reqs) < MaxReq /\ StaticRequest(url)
    \/ \E p \in 1..MaxReq : RebuildResolve(p)
    \/ \E p \in 1..MaxReq : RebuildReject(p)
    \/ \E r \in 1..MaxReq : ServeArtifact(r)
    \/ \E r \in 1..MaxReq : StatDone(r)
    \/ \E r \in 1..MaxReq : AccessDone(r)

Spec == Init /\ [][Next]_vars

\* the same handlers, driven with the router's request paths
RouterNext ==
    \/ \E url \in RouterUrls : Len(reqs) < MaxRouterReq /\ Redirect(url)
    \/ \E url \in RouterUrls : Len(reqs) < MaxRouterReq /\ ArtifactRequest(url)
    \/ \E url \in RouterUrls : Len(reqs) < MaxRouterReq /\ StaticRequest(url)
    \/ \E p \in 1..MaxReq : RebuildResolve(p)
    \/ \E p \in 1..MaxReq : RebuildReject(p)
    \/ \E r \in 1..MaxReq : ServeArtifact(r)
    \/ \E r \in 1..MaxReq : StatDone(r)
    \/ \E r \in 1..MaxReq : AccessDone(r)

RouterSpec == RouterInit /\ [][RouterNext]_vars

\* The event loop runs every callback that is ready and the Builder ends
\* every invocation, one way or the other; no request is owed by a client.
Fairness ==
    /\ \A r \in 1..MaxReq : WF_vars(ServeArtifact(r))
    /\ \A r \in 1..MaxReq : WF_vars(StatDone(r))
    /\ \A r \in 1..MaxReq : WF_vars(AccessDone(r))
    /\ \A p \in 1..MaxReq : WF_vars(RebuildResolve(p) \/ RebuildReject(p))

FairSpec == Spec /\ Fairness

\* the server while every ctx.rebuild() fulfils
SuccessNext ==
    \/ \E url \in Urls : Len(reqs) < MaxSuccessReq /\ Redirect(url)
    \/ \E url \in Urls : Len(reqs) < MaxSuccessReq /\ ArtifactRequest(url)
    \/ \E url \in Urls : Len(reqs) < MaxSuccessReq /\ StaticRequest(url)
    \/ \E p \in 1..MaxReq : RebuildResolve(p)
    \/ \E r \in 1..MaxReq : ServeArtifact(r)
    \/ \E r \in 1..MaxReq : StatDone(r)
    \/ \E r \in 1..MaxReq : AccessDone(r)

\* every invocation of the Builder completes and the event loop runs every
\* continuation that is ready
SuccessFairness ==
    /\ \A r \in 1..MaxReq : WF_vars(ServeArtifact(r))
    /\ \A p \in 1..MaxReq : WF_vars(RebuildResolve(p))

SuccessSpec == Init /\ [][SuccessNext]_vars /\ SuccessFairness

\* ------------------------------------------------------------ page loads
\* A page load of the simulator fetches bundle.js and bundle.css once and
\* simulator.worker.js twice (line 129).
PageQuota(f) == IF f = "simulator.worker.js" THEN 2 ELSE 1

PageFiles == Range(ARTIFACTS)

\* the page loads that fit into MaxPageReq requests
PageLoads == (MaxPageReq + 3) \div 4

\* the number of requests received for file name f
Requested(f) == Cardinality({r \in DOMAIN reqs : reqs[r].filename = f})

\* the requests suspended on `await output`
InFlight == {r \in DOMAIN reqs : reqs[r].pc = "await"}

\* one request of some page load arrives: file f is owed by a load as long
\* as the loads together have not fetched their quota of it
PageRequest(f) ==
    /\ Len(reqs) < MaxPageReq
    /\ Cardinality(InFlight) < MaxInFlight
    /\ Requested(f) < PageQuota(f) * PageLoads
    /\ ArtifactRequest(<<subpackage_of, THIS_PACKAGE, f>>)

\* the server receiving page loads only, their requests in any order
PageNext ==
    \/ \E f \in PageFiles : PageRequest(f)
    \/ \E p \in 1..MaxPageReq : RebuildResolve(p)
    \/ \E p \in 1..MaxPageReq : RebuildReject(p)
    \/ \E r \in 1..MaxPageReq : ServeArtifact(r)

PageSpec == Init /\ [][PageNext]_vars

\* ---------------------------------------------------------- redirectData
\* An import specifier is the sequence of its segments: "s1/s2/.../sn" is
\* <<s1, ..., sn>>.  A resolved path is the sequence of segments below
\* `dirname`, the directory of build.mjs, ".." leading out of it.

\* line 51: the well-known data file names, in registration order
ExactFiles == <<"skill_meta.json", "skill_aliases.json", "umas.json", "skill_trigrams.json">>

\* the segments import specifiers are made of
SpecSegments ==
    {".", "..", "uma-skill-tools", "data", "sub",
     "skill_meta.json", "umas.json", "course_data.json"}

RECURSIVE SeqsOver(_, _)
\* the sequences over set S of length 1..n
SeqsOver(S, n) ==
    IF n = 0 THEN {}
    ELSE LET shorter == SeqsOver(S, n - 1)
         IN  {<<x>> : x \in S} \cup shorter \cup {Append(q, x) : q \in shorter, x \in S}

\* the specifiers the Builder asks the plugin about
Specifiers == SeqsOver(SpecSegments, MaxSpecLen)

\* variant: any number of leading ./ and ../ levels
MutMatchesDataAnyDepth(s) ==
    \E d \in 2..(Len(s) - 1) :
        /\ s[d] = "data"
        /\ \A i \in 1..(d - 1) :
              s[i] \in {".", ".."} \/ (i = d - 1 /\ i > 1 /\ s[i] = "uma-skill-tools")

\* line 48: the filter /^\.\.?(?:\/uma-skill-tools)?\/data\//
MatchesData(s) ==
    /\ Len(s) >= 3
    /\ s[1] \in {".", ".."}
    /\ \/ s[2] = "data"
       \/ Len(s) >= 4 /\ s[2] = "uma-skill-tools" /\ s[3] = "data"

\* the first i >= from where "/data/" occurs in s, 0 when there is none
FirstData(s, from) ==
    LET hits == {i \in from..(Len(s) - 1) : i >= 2 /\ s[i] = "data"}
    IN  IF hits = {} THEN 0 ELSE CHOOSE i \in hits : \A j \in hits : i <= j

\* line 49: args.path.split('/data/')[1], the text between the first "/data/"
\* and the next one
SplitData1(s) ==
    LET i == FirstData(s, 2)
        j == FirstData(s, i + 2)
    IN  IF j = 0 THEN SubSeq(s, i + 1, Len(s)) ELSE SubSeq(s, i + 1, j - 1)

RECURSIVE Normalize(_, _)
\* path.join's normalisation: "" and "." vanish, ".." removes the segment
\* before it
Normalize(segs, acc) ==
    IF segs = <<>> THEN acc
    ELSE LET h == Head(segs)
         IN  IF h \in {"", "."} THEN Normalize(Tail(segs), acc)
             ELSE IF h = ".." /\ acc # <<>> /\ acc[Len(acc)] # ".."
                  THEN Normalize(Tail(segs), SubSeq(acc, 1, Len(acc) - 1))
                  ELSE Normalize(Tail(segs), Append(acc, h))

\* path.join(dirname, rel), below dirname
JoinDirname(rel) == Normalize(rel, <<>>)

\* line 52: the filter new RegExp(f), unanchored: some segment holds the name
MatchesFile(s, f) == \E i \in DOMAIN s : s[i] = f

\* the first name of ExactFiles whose filter matches, 0 when none does
FirstFile(s) ==
    LET hits == {k \in DOMAIN ExactFiles : MatchesFile(s, ExactFiles[k])}
    IN  IF hits = {} THEN 0 ELSE CHOOSE k \in hits : \A m \in hits : k <= m

\* variant: the exact-name callbacks registered before the data callback
MutOnResolveExactFirst(s) ==
    IF FirstFile(s) # 0
    THEN [rule |-> "file", path |-> JoinDirname(<<ExactFiles[FirstFile(s)]>>)]
    ELSE IF MatchesData(s)
    THEN [rule |-> "data", path |-> JoinDirname(SplitData1(s))]
    ELSE [rule |-> "declined", path |-> <<>>]

\* lines 47-55: the callbacks in the order setup registers them; the Builder
\* runs them in that order and takes the first answer
OnResolveResult(s) ==
    IF MatchesData(s)
    THEN [rule |-> "data", path |-> JoinDirname(SplitData1(s))]
    ELSE IF FirstFile(s) # 0
    THEN [rule |-> "file", path |-> JoinDirname(<<ExactFiles[FirstFile(s)]>>)]
    ELSE [rule |-> "declined", path |-> <<>>]

\* the Builder resolves one import through the plugin
OnResolve ==
    /\ specifier # <<>>
    /\ resolved.rule = "idle"
    /\ resolved' = OnResolveResult(specifier)
    /\ UNCHANGED <<subpackage_of, coordinator, alive, reqs, specifier>>

ResolveInit ==
    /\ subpackage_of = "uma-tools"
    /\ Start
    /\ specifier \in Specifiers
    /\ resolved = [rule |-> "idle", path |-> <<>>]

ResolveNext == OnResolve

ResolveSpec == ResolveInit /\ [][ResolveNext]_vars

\* ============================================================== properties
\* the artifact requests among the first n requests received
ArtifactReqs(n) == {r \in 1..n : r <= Len(reqs) /\ reqs[r].kind = "artifact"}

AllArtifactReqs == ArtifactReqs(Len(reqs))

\* those that triggered a rebuild
Triggers(n) == {r \in ArtifactReqs(n) : reqs[r].triggered}

Running == {p \in DOMAIN promises : promises[p].build = "running"}

Served(r) == reqs[r].kind = "artifact" /\ reqs[r].pc = "done" /\ reqs[r].status = 200

AwaitsRejected(r) ==
    /\ r \in DOMAIN reqs
    /\ reqs[r].pc = "await"
    /\ reqs[r].handle # Null
    /\ promises[reqs[r].handle].build = "rejected"

\* request r has been answered with a 500-class response
AnsweredFailed(r) ==
    r \in DOMAIN reqs /\ reqs[r].pc = "done" /\ reqs[r].status >= 500

\* C3 (as stated): when a Builder invocation fails, every request awaiting that
\* generation's PendingOutput is eventually answered with a failed response;
\* none is left waiting forever.
C3_WaitersObserveFailure ==
    \A r \in 1..MaxReq :
        [](AwaitsRejected(r) => <>AnsweredFailed(r))

\* C4 (as stated): once the latest Builder invocation has failed, the next
\* artifact request, for whichever artifact, triggers a fresh rebuild and does
\* not wait on the failed generation's handle.
C4_RequestAfterFailureRebuilds ==
    [][ ( /\ Len(reqs') = Len(reqs) + 1
          /\ reqs'[Len(reqs')].kind = "artifact"
          /\ output # Null
          /\ promises[output].build = "rejected" )
        => ( /\ reqs'[Len(reqs')].triggered
             /\ promises'[reqs'[Len(reqs')].handle].build # "rejected" ) ]_vars

\* the largest RequestCount is at least n
MaxRequestCountAtLeast(n) == \E f \in ArtifactNames : requestCount[f] >= n

\* C5 (as stated): BuildGeneration <= max over all artifacts of RequestCount.
C5_BuildCountAtMostMaxRequestCount == MaxRequestCountAtLeast(buildCount)

\* C5 (amended): BuildGeneration never exceeds the number of artifact requests
\* processed (a request triggers at most one rebuild); it can exceed the
\* largest RequestCount, because a request whose updated count is below
\* BuildGeneration triggers a rebuild too.
C5_BuildCountAtMostRequests == buildCount <= Cardinality(AllArtifactReqs)

\* C5 witness: three requests have been processed, each triggered a rebuild and
\* BuildGeneration is above every RequestCount.
C5_Witness ==
    /\ Cardinality(AllArtifactReqs) = 3
    /\ buildCount = 3
    /\ ~MaxRequestCountAtLeast(buildCount)

NoBuildRejected == \A p \in DOMAIN promises : promises[p].build # "rejected"

\* every artifact request received so far is for file name f
OnlyRequested(f) == \A r \in AllArtifactReqs : reqs[r].filename = f

\* C6: when the N artifact requests received so far are all for one artifact
\* and no rebuild failed, the Builder has been invoked at most ceil(N/2) times
\* if that artifact is the worker script and at most N times otherwise, once
\* per BuildGeneration increment.
C6_SameArtifactBuilderBound ==
    \A f \in ArtifactNames :
        (OnlyRequested(f) /\ NoBuildRejected) =>
            LET N == Cardinality(AllArtifactReqs)
            IN  /\ Len(promises) = buildCount
                /\ f = "simulator.worker.js" => 2 * Len(promises) <= N + 1
                /\ f # "simulator.worker.js" => Len(promises) <= N

\* C6 witness: three requests, all for the worker script, caused two Builder
\* invocations, both completed.
C6_Witness ==
    /\ Cardinality(AllArtifactReqs) = 3
    /\ OnlyRequested("simulator.worker.js")
    /\ Len(promises) = 2
    /\ \A p \in DOMAIN promises : promises[p].build = "done"

\* C7 (as stated): two consecutive requests for the worker script, with no
\* other artifact request between them, never cause two rebuilds, whatever the
\* state of the counters the pair starts in.
C7_WorkerPairOneRebuild ==
    \A r1, r2 \in AllArtifactReqs :
        ( /\ r1 < r2
          /\ reqs[r1].filename = "simulator.worker.js"
          /\ reqs[r2].filename = "simulator.worker.js"
          /\ \A m \in AllArtifactReqs : ~(r1 < m /\ m < r2) )
        => ~(reqs[r1].triggered /\ reqs[r2].triggered)

\* C8: the buffer an artifact request is served is the buffer of its own file
\* name in the output of the BuildGeneration that was current when the request
\* took the handle, whatever was triggered before the response was written.
C8_ServedFromPreparedGeneration ==
    \A r \in AllArtifactReqs :
        Served(r) => reqs[r].body = [gen |-> reqs[r].gen, name |-> reqs[r].filename]

\* C8 witness: a request is served generation 1 after a later request has
\* triggered generation 2 and that rebuild has completed.
C8_Witness ==
    \E r \in AllArtifactReqs :
        /\ Served(r)
        /\ reqs[r].gen = 1 /\ reqs[r].body.gen = 1
        /\ buildCount >= 2 /\ output = 2
        /\ promises[2].build = "done"
        /\ \E q \in AllArtifactReqs : q # r /\ reqs[q].pc = "await" /\ reqs[q].handle = 1

\* C9: with a prefix configured, a request whose path does not begin with
\* "/<prefix>/" (a path shorter than that included) is answered 302 with
\* Location "/<prefix>/umalator-global/", and requestCount, buildCount, the
\* PendingOutput handle and the worker toggle are unchanged: no rebuild starts.
C9_MismatchRedirects ==
    [][ ( /\ Len(reqs') = Len(reqs) + 1
          /\ subpackage_of # NoPrefix
          /\ \/ Len(reqs'[Len(reqs')].url) < 2
             \/ reqs'[Len(reqs')].url[1] # subpackage_of )
        => ( /\ reqs'[Len(reqs')].pc = "done"
             /\ reqs'[Len(reqs')].status = 302
             /\ reqs'[Len(reqs')].location = <<subpackage_of, "umalator-global", "">>
             /\ UNCHANGED <<requestCount, buildCount, output, workerState, promises>> ) ]_vars

\* C9 witness: after an artifact request has started a rebuild, the path
\* "/uma-tools", shorter than the prefix "/uma-tools/", was answered 302 and
\* the counters are those the artifact request left.
C9_Witness ==
    /\ Len(reqs) = 2
    /\ reqs[1].kind = "artifact"
    /\ reqs[2].url = <<"uma-tools">>
    /\ reqs[2].status = 302
    /\ reqs[2].location = <<"uma-tools", "umalator-global", "">>
    /\ buildCount = 1 /\ output = 1

\* the file a static passthrough for request path url answers with: the path
\* below the static root, or index.html inside it when it is a directory
ExpectedTarget(url) ==
    LET path == SelectSeq(IF subpackage_of # NoPrefix THEN Tail(url) ELSE url,
                          LAMBDA seg : seg # "")
    IN  IF FsKind(path) = "dir" THEN path \o <<"index.html">> ELSE path

\* request path url passes the prefix check and its final segment is no
\* artifact or source-map file name
IsPassthrough(url) ==
    /\ subpackage_of = NoPrefix \/ (Len(url) >= 2 /\ url[1] = subpackage_of)
    /\ LET path == SelectSeq(IF subpackage_of # NoPrefix THEN Tail(url) ELSE url,
                             LAMBDA seg : seg # "")
       IN  path = <<>> \/ path[Len(path)] \notin ArtifactNames

\* C10: a request that passes the prefix check and whose final path segment is
\* no artifact or source-map name is a static passthrough; its target is
\* index.html inside the resolved path when that is a directory and the path
\* itself otherwise; it is answered 200, with the content type of the target's
\* extension, exactly when the target exists, and 404 otherwise.
C10_StaticPassthrough ==
    \A r \in DOMAIN reqs :
        IsPassthrough(reqs[r].url) =>
            /\ reqs[r].kind = "static"
            /\ reqs[r].pc \in {"access", "done"} => reqs[r].target = ExpectedTarget(reqs[r].url)
            /\ reqs[r].pc = "done" =>
                  LET target == ExpectedTarget(reqs[r].url)
                  IN  IF FsKind(target) # "absent"
                      THEN /\ reqs[r].status = 200
                           /\ reqs[r].ctype = StaticContentType(target)
                      ELSE reqs[r].status = 404

\* C10 witness: a directory with an index.html was answered 200 as text/html
\* and a directory without one was answered 404.
C10_Witness ==
    /\ Len(reqs) = 2
    /\ reqs[1].fp = <<"umalator-global">> /\ reqs[1].pc = "done"
    /\ reqs[1].status = 200 /\ reqs[1].ctype = "text/html; charset=UTF-8"
    /\ reqs[2].fp = <<"vendor">> /\ reqs[2].pc = "done"
    /\ reqs[2].status = 404

\* ------------------------------------------------- redirectData properties
\* the position of the data directory in a specifier the generic rule's
\* convention covers with one leading level: ./data/, ../data/,
\* ./uma-skill-tools/data/ or ../uma-skill-tools/data/; 0 otherwise
DataAt(s) ==
    IF Len(s) >= 3 /\ s[1] \in {".", ".."} /\ s[2] = "data" THEN 2
    ELSE IF Len(s) >= 4 /\ s[1] \in {".", ".."} /\ s[2] = "uma-skill-tools" /\ s[3] = "data"
    THEN 3 ELSE 0

\* the segments after position d are plain names: directories and files
PlainAfter(s, d) ==
    \A i \in (d + 1)..Len(s) : s[i] \notin {".", "..", "data", "uma-skill-tools"}

IsExactFile(seg) == \E k \in DOMAIN ExactFiles : ExactFiles[k] = seg

\* the specifier matches the generic data rule and ends in a well-known name
MatchesBoth(s) == DataAt(s) # 0 /\ PlainAfter(s, DataAt(s)) /\ IsExactFile(s[Len(s)])

Answered == resolved.rule # "idle"

RelativeDataAt(s, d) ==
    /\ 2 <= d /\ d < Len(s)
    /\ s[d] = "data"
    /\ \A i \in 1..(d - 1) : s[i] \in {".", ".."}
    /\ PlainAfter(s, d)

ArtifactArrives ==
    /\ Len(reqs') = Len(reqs) + 1
    /\ reqs'[Len(reqs')].kind = "artifact"

\* C13: an artifact request triggers a rebuild if and only if its artifact's
\* updated RequestCount differs from BuildGeneration; a trigger increments
\* BuildGeneration by one, starts one Builder invocation and replaces the
\* PendingOutput handle in the same step; no other step touches any of them;
\* BuildGeneration is the number of Builder invocations started so far.
C13_TriggerExactlyOnMismatch ==
    /\ [](buildCount = Len(promises))
    /\ [][ IF ArtifactArrives
           THEN LET updated == requestCount'[reqs'[Len(reqs')].filename]
                IN  IF updated # buildCount
                    THEN /\ buildCount' = buildCount + 1
                         /\ Len(promises') = Len(promises) + 1
                         /\ promises'[Len(promises')] = [gen |-> buildCount', build |-> "running"]
                         /\ output' = Len(promises') /\ output' # output
                    ELSE /\ buildCount' = buildCount
                         /\ Len(promises') = Len(promises)
                         /\ output' = output
           ELSE /\ buildCount' = buildCount
                /\ Len(promises') = Len(promises)
                /\ output' = output ]_vars

\* C13 witness: a request whose updated count (1) is below BuildGeneration (2)
\* triggered the third rebuild, and a later request with updated count 3
\* triggered none.
C13_Witness ==
    \E t, r \in AllArtifactReqs :
        /\ t < r
        /\ reqs[t].triggered /\ reqs[t].requestN = 1 /\ reqs[t].gen = 3
        /\ ~reqs[r].triggered /\ reqs[r].requestN = 3
        /\ buildCount = 3 /\ Len(promises) = 3 /\ output = 3

\* the number of artifact requests processed for file name f
Processed(f) == Cardinality({r \in AllArtifactReqs : reqs[r].filename = f})

\* C14: RequestCount[a] is the number of artifact requests processed for a,
\* for the worker script ceil(k/2) of its k requests; no counter decreases.
C14_RequestCountExact ==
    /\ [](\A f \in ArtifactNames :
            requestCount[f] = IF f = "simulator.worker.js"
                              THEN (Processed(f) + 1) \div 2
                              ELSE Processed(f))
    /\ [][\A f \in ArtifactNames : requestCount'[f] >= requestCount[f]]_vars

\* C14 witness: three worker-script requests counted 2, one bundle.js request
\* counted 1.
C14_Witness ==
    /\ Processed("simulator.worker.js") = 3
    /\ requestCount["simulator.worker.js"] = 2
    /\ Processed("bundle.js") = 1
    /\ requestCount["bundle.js"] = 1

\* request r was answered 200 with the buffer of its own file name out of the
\* output map of the promise it awaited
ServedOwnBuffer(r) ==
    /\ r \in DOMAIN reqs
    /\ Served(r)
    /\ reqs[r].handle # Null
    /\ promises[reqs[r].handle].build = "done"
    /\ reqs[r].body = [gen |-> promises[reqs[r].handle].gen, name |-> reqs[r].filename]

IsArtifactRequest(r) == r \in DOMAIN reqs /\ reqs[r].kind = "artifact"

\* C15: while every Builder invocation completes successfully, every artifact
\* request is eventually answered 200 with the buffer stored under its own
\* file name in the output map of the promise it awaited.
C15_EveryArtifactRequestServed ==
    \A r \in 1..MaxReq : IsArtifactRequest(r) ~> ServedOwnBuffer(r)

\* C15 witness: the second worker-script request, which triggered nothing, was
\* served the worker buffer of the generation the first one triggered.
C15_Witness ==
    \E r \in AllArtifactReqs :
        /\ ServedOwnBuffer(r)
        /\ reqs[r].filename = "simulator.worker.js"
        /\ ~reqs[r].triggered
        /\ NoBuildRejected

\* the first artifact request of the process
FirstArtifactRequest == CHOOSE r \in AllArtifactReqs : \A q \in AllArtifactReqs : r <= q

\* C16: an artifact request never awaits a null handle; the first artifact
\* request of the process has an updated count of at least 1 and triggers the
\* first rebuild.
C16_HandleNeverNull ==
    /\ \A r \in AllArtifactReqs :
          /\ reqs[r].handle # Null
          /\ reqs[r].handle \in DOMAIN promises
          /\ reqs[r].pc # "threw"
    /\ AllArtifactReqs # {} =>
          /\ reqs[FirstArtifactRequest].requestN >= 1
          /\ reqs[FirstArtifactRequest].triggered
          /\ reqs[FirstArtifactRequest].handle = 1

\* C16 witness: the first artifact request was for the worker script, after a
\* static request; it triggered generation 1 and was served from it.
C16_Witness ==
    /\ AllArtifactReqs # {}
    /\ FirstArtifactRequest > 1
    /\ reqs[FirstArtifactRequest].filename = "simulator.worker.js"
    /\ reqs[FirstArtifactRequest].triggered
    /\ Served(FirstArtifactRequest)

\* the step belongs to a static passthrough request: one arrives, or one of
\* them moves on
StaticStep ==
    \/ /\ Len(reqs') = Len(reqs) + 1
       /\ reqs'[Len(reqs')].kind = "static"
    \/ \E r \in DOMAIN reqs :
          /\ reqs[r].kind = "static"
          /\ r \in DOMAIN reqs'
          /\ reqs'[r] # reqs[r]

\* C18: a step of a static passthrough request leaves requestCount,
\* buildCount, the PendingOutput handle, the worker toggle and the set of
\* Builder invocations as they are; a request that is not redirected is
\* static whenever the base name of its path is no artifact or source-map name.
C18_StaticLeavesCoordinator ==
    /\ [](\A r \in DOMAIN reqs :
            (reqs[r].kind # "redirect" /\ Basename(reqs[r].url) \notin ArtifactNames)
                => (reqs[r].kind = "static" /\ ~reqs[r].triggered /\ reqs[r].handle = Null))
    /\ [][StaticStep => UNCHANGED coordinator]_vars

\* C18 witness: a static request ended in 404 while the rebuild triggered by
\* an earlier artifact request was running.
C18_Witness ==
    \E s, a \in DOMAIN reqs :
        /\ a < s
        /\ reqs[s].kind = "static" /\ reqs[s].pc = "done" /\ reqs[s].status = 404
        /\ reqs[a].kind = "artifact" /\ reqs[a].pc = "await"
        /\ buildCount = 1 /\ output = 1
        /\ promises[1].build = "running"

\* ---------------------------------------------------- page-load properties
\* the number of requests for the file of request r up to and including r
Nth(r) == Cardinality({q \in 1..r : reqs[q].filename = reqs[r].filename})

\* the page load request r belongs to: the loads fetch each file in turn, the
\* k-th load sends the k-th request for bundle.js and for bundle.css and the
\* requests 2k-1 and 2k for the worker script
LoadOf(r) == (Nth(r) + PageQuota(reqs[r].filename) - 1) \div PageQuota(reqs[r].filename)

ReqsOfLoad(l) == {r \in AllArtifactReqs : LoadOf(r) = l}

\* the first request of load l
FirstOfLoad(l) == CHOOSE r \in ReqsOfLoad(l) : \A q \in ReqsOfLoad(l) : r <= q

\* load l triggered one rebuild, by its first request, and what its requests
\* were served is of that rebuild's generation
OneRebuildPerLoad(l) ==
    ReqsOfLoad(l) # {} =>
        /\ {r \in ReqsOfLoad(l) : reqs[r].triggered} = {FirstOfLoad(l)}
        /\ \A r \in ReqsOfLoad(l) :
              /\ reqs[r].gen = reqs[FirstOfLoad(l)].gen
              /\ Served(r) => reqs[r].body.gen = reqs[FirstOfLoad(l)].gen

\* the requests of a load all arrive before the first request of the next
InOrder == \A r \in AllArtifactReqs : LoadOf(r) = (r + 3) \div 4

\* C17 (as stated): when requests arrive in page loads (bundle.js and
\* bundle.css once, the worker script twice), in any order and with any
\* overlap, each load triggers exactly one rebuild, by its first request, and
\* every request of the load is served from that rebuild's generation.
C17_EachLoadOneRebuild == \A l \in 1..PageLoads : OneRebuildPerLoad(l)

\* C17 (amended): when the four requests of each page load arrive, in any
\* order, before the first request of the next load (responses and rebuilds
\* of earlier loads may still be outstanding), load l triggers exactly one
\* rebuild, generation l, by its first request, and every request of the load
\* awaits, and is served from, that generation.
C17_InOrderLoadsOneRebuild ==
    InOrder =>
        \A l \in 1..PageLoads :
            /\ OneRebuildPerLoad(l)
            /\ ReqsOfLoad(l) # {} => reqs[FirstOfLoad(l)].gen = l

\* C17 witness: the first load's four requests arrived, then three of the
\* second load, the worker script first, while a response of the first load
\* was outstanding; the second load triggered generation 2 once and its
\* requests were served from it.
C17_Witness ==
    /\ InOrder
    /\ Len(reqs) = 7
    /\ reqs[4].pc = "await"
    /\ reqs[5].filename = "simulator.worker.js"
    /\ {r \in 1..7 : reqs[r].triggered} = {1, 5}
    /\ buildCount = 2
    /\ \A r \in 5..7 : Served(r) /\ reqs[r].body.gen = 2

====
